---- MODULE Spec2Model ----
(***************************************************************************)
(* A model of markov_bot's per-chat Markov chain cache                     *)
(* (src/src/chain_wrapper.rs), of the Google Drive blob store it persists  *)
(* to (src/src/gdrive.rs) and of the retry helpers every store request     *)
(* goes through (src/src/utils.rs).                                        *)
(***************************************************************************)
EXTENDS Integers, Sequences, FiniteSets, TLC

VARIABLES
    chains,     \* ChainWrapper.chains: chat_id -> ChainInfo (a function on the resident ids)
    files,      \* the chaindump folder: file name -> the contents of the files of that name
    clock,      \* SystemTime::now()
    phase,      \* "running" until main leaves the polling loop, then "exited"
    last,       \* what the last operation was, did and returned
    rOuts,      \* retry helper: the outcome (TRUE = Ok) of each invocation of the closure
    rRes,       \* retry helper: what the last call of a helper returned
    mutex,      \* the Mutex around the ChainWrapper: the handler that holds it, or NoTask
    tasks,      \* the handlers the bot runs at once: where each is in its call
    locks,      \* the Mutexes now, chain and HUB: who holds each, or NoTask
    poison,     \* the Mutexes whose holder panicked
    parent,     \* the lazy static PARENT: "uninit", "ready" or "poisoned"
    relock,     \* what Mutex::lock does in the thread that holds it: "blocks" or "panics"
    progs       \* the lock and unlock steps each handler has to run, and where it is

vars == <<chains, files, clock, phase, last, rOuts, rRes, mutex, tasks,
         locks, poison, parent, relock, progs>>

cacheVars == <<chains, files, clock, phase, last>>
retryVars == <<rOuts, rRes>>
lockVars == <<mutex, tasks>>
orderVars == <<locks, poison, parent, relock, progs>>

(***************************************************************************)
(* Bounds and program constants                                            *)
(***************************************************************************)
\* the clock stops advancing here
MaxTime == 2

\* utils.rs: random_durations takes 5 delays
NumDurations == 5

\* chain_wrapper.rs: gen_loop tries 10 times
GenTries == 10

\* chain_wrapper.rs: MAX_TIMEDELTA, the idle time after which a chat is dropped;
\* the program reads it from the environment, the model sets it
MAX_TIMEDELTA == 1

\* the chats of the model
Ids == {7, 42}

\* chat_id.to_string()
to_string(chat_id) == IF chat_id = 7 THEN "7" ELSE "42"

Names == {to_string(id) : id \in Ids}

COMMAND_FAILED == "[command failed, please try again later]"
NO_PHRASES == "[no phrases learnt]"
LEARNING_DISABLED == "[learning disabled]"
LEARNING_ENABLED == "[learning enabled]"
DATABASE_CLEARED == "[database cleared]"

(***************************************************************************)
(* Text: a string is a sequence of characters                              *)
(***************************************************************************)
IsWhite(c) == c \in {" ", "\n"}

\* str::trim
RECURSIVE TrimStart(_)
TrimStart(s) ==
    IF s # <<>> /\ IsWhite(Head(s)) THEN TrimStart(Tail(s)) ELSE s

RECURSIVE TrimEnd(_)
TrimEnd(s) ==
    IF s # <<>> /\ IsWhite(s[Len(s)]) THEN TrimEnd(SubSeq(s, 1, Len(s) - 1)) ELSE s

trim(s) == TrimEnd(TrimStart(s))

\* str::lines: the pieces between line feeds, without a last empty piece
RECURSIVE SplitLines(_, _)
SplitLines(s, cur) ==
    IF s = <<>> THEN (IF cur = <<>> THEN <<>> ELSE <<cur>>)
    ELSE IF Head(s) = "\n" THEN <<cur>> \o SplitLines(Tail(s), <<>>)
    ELSE SplitLines(Tail(s), Append(cur, Head(s)))

lines(s) == SplitLines(s, <<>>)

\* the messages the model feeds
Texts ==
    { <<" ">>,
      <<" ", "a", " ", "\n", " ", "\n", "a">> }

\* the words given after /speak
Tokens == { <<>>, <<"a">> }

(***************************************************************************)
(* utils.rs: the retry helpers                                             *)
(***************************************************************************)
RECURSIVE Pow2(_)
Pow2(n) == IF n = 0 THEN 1 ELSE 2 * Pow2(n - 1)

\* mutant of random_durations: one delay more
random_durations_six == [i \in 1..(NumDurations + 1) |-> Pow2(i) * 100]

\* random_durations: 2, 4, 8, 16, 32 ms times 100 (the jitter scales each by a
\* random factor below 1, which changes no count)
random_durations == [i \in 1..NumDurations |-> Pow2(i) * 100]

\* the invocations a call can be asked about: one more than any helper makes
MaxInvocations == NumDurations + 2

\* retry::retry: invoke; on Err take the next delay, sleep and invoke again;
\* with no delay left return the error of this invocation
RECURSIVE retry(_, _, _, _)
retry(durations, outs, try, trace) ==
    LET called == Append(trace, "call") IN
    IF outs[try]
    THEN [ok |-> TRUE, from |-> try, calls |-> try, trace |-> called]
    ELSE IF durations # <<>>
         THEN retry(Tail(durations), outs, try + 1, Append(called, "wait"))
         ELSE [ok |-> FALSE, from |-> try, calls |-> try, trace |-> called]

\* exponential_retry(closure); outs[i] is whether the i-th invocation returns Ok
exponential_retry(outs) == retry(random_durations, outs, 1, <<>>)

\* mutant of retry_async_loop: the first error is kept, not the last
RECURSIVE retry_async_loop_first_error(_, _, _, _, _)
retry_async_loop_first_error(durations, outs, n, err, trace) ==
    IF durations = <<>>
    THEN [ok |-> FALSE, from |-> err, calls |-> n, trace |-> trace]
    ELSE LET waited == Append(Append(trace, "wait"), "call") IN
         IF outs[n + 1]
         THEN [ok |-> TRUE, from |-> n + 1, calls |-> n + 1, trace |-> waited]
         ELSE retry_async_loop_first_error(Tail(durations), outs, n + 1,
                                           IF err = 0 THEN n + 1 ELSE err, waited)

\* the loop of exponential_retry_async: for each delay, wait, then invoke
RECURSIVE retry_async_loop(_, _, _, _, _)
retry_async_loop(durations, outs, n, err, trace) ==
    IF durations = <<>>
    THEN [ok |-> FALSE, from |-> err, calls |-> n, trace |-> trace]
    ELSE LET waited == Append(Append(trace, "wait"), "call") IN
         IF outs[n + 1]
         THEN [ok |-> TRUE, from |-> n + 1, calls |-> n + 1, trace |-> waited]
         ELSE retry_async_loop(Tail(durations), outs, n + 1, n + 1, waited)

exponential_retry_async(outs) == retry_async_loop(random_durations, outs, 0, 0, <<>>)

NoResult == [variant |-> "none", ok |-> FALSE, from |-> 0, calls |-> 0, trace |-> <<>>]

WithVariant(v, r) ==
    [variant |-> v, ok |-> r.ok, from |-> r.from, calls |-> r.calls, trace |-> r.trace]

(***************************************************************************)
(* gdrive.rs: the blob store                                               *)
(***************************************************************************)
\* the numbers of failing invocations a store request starts with
FailCounts == {0, NumDurations, NumDurations + 1}

\* the failures of the listing and of the transfer of one store call: none,
\* as many as there are delays, one more in the listing, one more in the transfer
StoreFails ==
    { <<0, 0>>, <<NumDurations, 0>>, <<NumDurations + 1, 0>>, <<0, NumDurations + 1>> }

\* a request whose first f invocations fail
ApiOutcomes(f) == [i \in 1..MaxInvocations |-> i > f]

\* the request wrapped in exponential_retry: does it get through
RetriedOk == [f \in FailCounts |-> exponential_retry(ApiOutcomes(f)).ok]

ApiOk(f) == RetriedOk[f]

\* bytes no ChainInfo deserializes from
Garbage == [kind |-> "garbage", chain |-> {}, chat_id |-> 0, is_learning |-> FALSE]

\* what the store does during one call of download_file or update_or_create_file:
\* f1 fails the listing, f2 the transfer, and first is the file of the wanted
\* name that the listing has first (Drive lists in no stated order)
StoreEnvs(fs, name) ==
    { [f1 |-> f[1], f2 |-> f[2], first |-> b] :
        f \in StoreFails, b \in (IF fs[name] = {} THEN {Garbage} ELSE fs[name]) }

\* a call that is not made
NoEnv == [f1 |-> 0, f2 |-> 0, first |-> Garbage]

\* list_folder_contents
list_folder_contents(fs, e) == [ok |-> ApiOk(e.f1), listing |-> fs]

\* get_id_by_name: the first file of that name in the listing, if any
get_id_by_name(fs, name, e) ==
    LET match(r) ==
            IF ~r.ok THEN [ok |-> FALSE, some |-> FALSE, id |-> Garbage]
            ELSE [ok |-> TRUE, some |-> r.listing[name] # {}, id |-> e.first]
    IN match(list_folder_contents(fs, e))

\* replace_file_by_id
replace_file_by_id(fs, bytes, name, id, e) ==
    IF ApiOk(e.f2)
    THEN [files |-> [fs EXCEPT ![name] = (@ \ {id}) \cup {bytes}], err |-> ""]
    ELSE [files |-> fs, err |-> "replace_file_by_id failed"]

\* upload_file: creates one more file of that name
upload_file(fs, bytes, name, e) ==
    IF ApiOk(e.f2)
    THEN [files |-> [fs EXCEPT ![name] = @ \cup {bytes}], err |-> ""]
    ELSE [files |-> fs, err |-> "upload_file failed"]

\* update_or_create_file
update_or_create_file(fs, bytes, name, e) ==
    LET match(r) ==
            IF r.ok /\ r.some
            THEN replace_file_by_id(fs, bytes, name, r.id, e)
            ELSE upload_file(fs, bytes, name, e)
    IN match(get_id_by_name(fs, name, e))

\* mutant of download_file: a listing that failed counts as no file found
download_file_absent_on_failure(fs, name, e) ==
    LET match(r) ==
            IF ~r.ok \/ ~r.some THEN [ok |-> TRUE, some |-> FALSE, bytes |-> Garbage]
            ELSE IF ApiOk(e.f2) THEN [ok |-> TRUE, some |-> TRUE, bytes |-> r.id]
            ELSE [ok |-> FALSE, some |-> FALSE, bytes |-> Garbage]
    IN match(get_id_by_name(fs, name, e))

\* download_file
download_file(fs, name, e) ==
    LET match(r) ==
            IF ~r.ok THEN [ok |-> FALSE, some |-> FALSE, bytes |-> Garbage]
            ELSE IF ~r.some THEN [ok |-> TRUE, some |-> FALSE, bytes |-> Garbage]
            ELSE IF ApiOk(e.f2) THEN [ok |-> TRUE, some |-> TRUE, bytes |-> r.id]
            ELSE [ok |-> FALSE, some |-> FALSE, bytes |-> Garbage]
    IN match(get_id_by_name(fs, name, e))

(***************************************************************************)
(* chain_wrapper.rs: ChainInfo                                             *)
(***************************************************************************)
\* Chain::new; the chain is the set of the lines it was fed (empty iff nothing was)
NewChain == {}

NoChainInfo ==
    [chain |-> NewChain, chat_id |-> 0, is_learning |-> FALSE, last_accessed |-> 0]

\* get_bincode. last_accessed is serialized too; the bytes of the model leave it
\* out, because ChainInfo::new overwrites it after every deserialization
get_bincode(ci) ==
    [kind |-> "bincode", chain |-> ci.chain, chat_id |-> ci.chat_id,
     is_learning |-> ci.is_learning]

\* bincode::deserialize
deserialize(bytes) ==
    IF bytes.kind = "bincode"
    THEN [ok |-> TRUE,
          ci |-> [chain |-> bytes.chain, chat_id |-> bytes.chat_id,
                  is_learning |-> bytes.is_learning, last_accessed |-> 0]]
    ELSE [ok |-> FALSE, ci |-> NoChainInfo]

\* one store write: what was sent under which name, and whether it got through
Put(name, bytes, r) == [name |-> name, bytes |-> bytes, ok |-> r.err = ""]

\* ChainInfo::serialize_to_gdrive
serialize_to_gdrive(fs, ci, e) ==
    IF ci.chain # NewChain
    THEN LET sent(binc, r) ==
                 [files |-> r.files, err |-> r.err,
                  puts |-> {Put(to_string(ci.chat_id), binc, r)}]
         IN sent(get_bincode(ci),
                 update_or_create_file(fs, get_bincode(ci), to_string(ci.chat_id), e))
    ELSE [files |-> fs, err |-> "", puts |-> {}]

\* ChainInfo::deserialize_from_gdrive
deserialize_from_gdrive(fs, chat_id, e) ==
    LET decoded(c) ==
            IF c.ok THEN [ok |-> TRUE, some |-> TRUE, ci |-> c.ci, load |-> "loaded"]
            ELSE [ok |-> FALSE, some |-> FALSE, ci |-> NoChainInfo, load |-> "corrupt"]
        match(d) ==
            IF ~d.ok
            THEN [ok |-> FALSE, some |-> FALSE, ci |-> NoChainInfo, load |-> "failed"]
            ELSE IF ~d.some
            THEN [ok |-> TRUE, some |-> FALSE, ci |-> NoChainInfo, load |-> "fresh"]
            ELSE decoded(deserialize(d.bytes))
    IN match(download_file(fs, to_string(chat_id), e))

\* mutant of ChainInfo_new: a new chat starts with learning disabled
ChainInfo_new_learning_off(fs, chat_id, now, e) ==
    LET match(d) ==
            IF ~d.ok THEN [ok |-> FALSE, ci |-> NoChainInfo, load |-> d.load]
            ELSE IF d.some
            THEN [ok |-> TRUE, ci |-> [d.ci EXCEPT !.last_accessed = now], load |-> d.load]
            ELSE [ok |-> TRUE,
                  ci |-> [chain |-> NewChain, chat_id |-> chat_id,
                          is_learning |-> FALSE, last_accessed |-> now],
                  load |-> d.load]
    IN match(deserialize_from_gdrive(fs, chat_id, e))

\* ChainInfo::new
ChainInfo_new(fs, chat_id, now, e) ==
    LET match(d) ==
            IF ~d.ok THEN [ok |-> FALSE, ci |-> NoChainInfo, load |-> d.load]
            ELSE IF d.some
            THEN [ok |-> TRUE, ci |-> [d.ci EXCEPT !.last_accessed = now], load |-> d.load]
            ELSE [ok |-> TRUE,
                  ci |-> [chain |-> NewChain, chat_id |-> chat_id,
                          is_learning |-> TRUE, last_accessed |-> now],
                  load |-> d.load]
    IN match(deserialize_from_gdrive(fs, chat_id, e))

\* mutant of touch: last_accessed is left as it is
touch_stale(ci, now) == ci

\* ChainInfo::touch
touch(ci, now) == [ci EXCEPT !.last_accessed = now]

\* mutant of feed: the text is fed whether the chat is learning or not
feed_always(ci, msg, now) ==
    LET fed(ls) == {ln \in {trim(ls[i]) : i \in 1..Len(ls)} : ln # <<>>}
        fed_to(t) == [t EXCEPT !.chain = @ \cup fed(lines(msg))]
    IN fed_to(touch(ci, now))

\* ChainInfo::feed
feed(ci, msg, now) ==
    LET fed(ls) == {ln \in {trim(ls[i]) : i \in 1..Len(ls)} : ln # <<>>}
        fed_to(t) == IF t.is_learning THEN [t EXCEPT !.chain = @ \cup fed(lines(msg))] ELSE t
    IN fed_to(touch(ci, now))

\* mutant of gen_loop_from: only the empty string counts as blank
RECURSIVE gen_loop_from_untrimmed(_, _)
gen_loop_from_untrimmed(outs, i) ==
    IF i > GenTries THEN [some |-> FALSE, s |-> <<>>, tries |-> GenTries]
    ELSE IF outs[i] = <<>> THEN gen_loop_from_untrimmed(outs, i + 1)
    ELSE [some |-> TRUE, s |-> outs[i], tries |-> i]

\* ChainInfo::gen_loop; outs[i] is what the i-th generate_str returns
RECURSIVE gen_loop_from(_, _)
gen_loop_from(outs, i) ==
    IF i > GenTries THEN [some |-> FALSE, s |-> <<>>, tries |-> GenTries]
    ELSE IF trim(outs[i]) = <<>> THEN gen_loop_from(outs, i + 1)
    ELSE [some |-> TRUE, s |-> outs[i], tries |-> i]

gen_loop(outs) == gen_loop_from(outs, 1)

\* mutant of generate: a blank generate_str_from_token is a failure, gen_loop
\* is not tried
generate_no_fallback(ci, token, now, g) ==
    LET looped(t, l, extra) ==
            [ci |-> t, some |-> l.some, fixed |-> "", s |-> l.s, tries |-> l.tries + extra]
        touched(t) ==
            IF t.chain # NewChain
            THEN IF trim(token) = <<>>
                 THEN looped(t, gen_loop(g.outs), 0)
                 ELSE [ci |-> t, some |-> trim(g.fromToken) # <<>>, fixed |-> "",
                       s |-> g.fromToken, tries |-> 1]
            ELSE [ci |-> t, some |-> TRUE, fixed |-> NO_PHRASES, s |-> <<>>, tries |-> 0]
    IN touched(touch(ci, now))

\* ChainInfo::generate; g.fromToken is what generate_str_from_token returns and
\* g.outs what the calls of generate_str return
generate(ci, token, now, g) ==
    LET looped(t, l, extra) ==
            [ci |-> t, some |-> l.some, fixed |-> "", s |-> l.s, tries |-> l.tries + extra]
        touched(t) ==
            IF t.chain # NewChain
            THEN IF trim(token) = <<>>
                 THEN looped(t, gen_loop(g.outs), 0)
                 ELSE IF trim(g.fromToken) = <<>>
                      THEN looped(t, gen_loop(g.outs), 1)
                      ELSE [ci |-> t, some |-> TRUE, fixed |-> "", s |-> g.fromToken,
                            tries |-> 1]
            ELSE [ci |-> t, some |-> TRUE, fixed |-> NO_PHRASES, s |-> <<>>, tries |-> 0]
    IN touched(touch(ci, now))

\* mutant of toggle_learning: learning is disabled, never enabled again
toggle_learning_off_only(ci, now) ==
    [ci |-> [touch(ci, now) EXCEPT !.is_learning = FALSE], msg |-> LEARNING_DISABLED]

\* ChainInfo::toggle_learning
toggle_learning(ci, now) ==
    LET t == touch(ci, now) IN
    IF t.is_learning
    THEN [ci |-> [t EXCEPT !.is_learning = FALSE], msg |-> LEARNING_DISABLED]
    ELSE [ci |-> [t EXCEPT !.is_learning = TRUE], msg |-> LEARNING_ENABLED]

\* ChainInfo::clear_data
clear_data(fs, ci, now, e) ==
    LET sent(c, binc, r) ==
            [ci |-> c, files |-> r.files, err |-> r.err,
             puts |-> {Put(to_string(c.chat_id), binc, r)}]
        cleared(c) ==
            sent(c, get_bincode(c),
                 update_or_create_file(fs, get_bincode(c), to_string(c.chat_id), e))
    IN cleared(touch([ci EXCEPT !.chain = NewChain, !.is_learning = TRUE], now))

\* mutant of drop: a ChainInfo is dropped without being saved
drop_without_save(fs, ci, e) == [files |-> fs, err |-> "", puts |-> {}]

\* impl Drop for ChainInfo
drop(fs, ci, e) == serialize_to_gdrive(fs, ci, e)

(***************************************************************************)
(* chain_wrapper.rs: ChainWrapper                                          *)
(***************************************************************************)
\* mutant of err_msg: the error of the store is passed on
err_msg_detail == "upload_file failed"

\* ChainWrapper::err_msg
err_msg == COMMAND_FAILED

\* mutant of get_chain: a failed load falls back to a new ChainInfo
get_chain_fresh_on_failure(ch, fs, chat_id, now, e) ==
    IF chat_id \in DOMAIN ch
    THEN [ok |-> TRUE, chains |-> ch, load |-> "hit"]
    ELSE LET fresh == [chain |-> NewChain, chat_id |-> chat_id,
                       is_learning |-> TRUE, last_accessed |-> now]
             match(n) ==
                 [ok |-> TRUE,
                  chains |-> ch @@ (chat_id :> (IF n.ok THEN n.ci ELSE fresh)),
                  load |-> n.load]
         IN match(ChainInfo_new(fs, chat_id, now, e))

\* mutant of get_chain: the ChainInfo is loaded whether the chat is resident or not
get_chain_always_loads(ch, fs, chat_id, now, e) ==
    LET match(n) ==
            IF n.ok
            THEN [ok |-> TRUE,
                  chains |-> [i \in DOMAIN ch \cup {chat_id} |->
                                IF i = chat_id THEN n.ci ELSE ch[i]],
                  load |-> n.load]
            ELSE [ok |-> FALSE, chains |-> ch, load |-> n.load]
    IN match(ChainInfo_new(fs, chat_id, now, e))

\* ChainWrapper::get_chain; load says where the ChainInfo came from:
\* "hit" (resident, no download), "loaded", "fresh", "failed" or "corrupt"
get_chain(ch, fs, chat_id, now, e) ==
    IF chat_id \in DOMAIN ch
    THEN [ok |-> TRUE, chains |-> ch, load |-> "hit"]
    ELSE LET match(n) ==
                 IF n.ok
                 THEN [ok |-> TRUE, chains |-> ch @@ (chat_id :> n.ci), load |-> n.load]
                 ELSE [ok |-> FALSE, chains |-> ch, load |-> n.load]
         IN match(ChainInfo_new(fs, chat_id, now, e))

\* mutant of is_old: idle for MAX_TIMEDELTA is old already
is_old_inclusive(elem, now) == now - elem.last_accessed >= MAX_TIMEDELTA

\* ChainWrapper::is_old
is_old(elem, now) == now - elem.last_accessed > MAX_TIMEDELTA

\* mutant of retain: an entry whose save failed stays in the map
RECURSIVE retain_keep_on_failure(_, _, _, _)
retain_keep_on_failure(ch, fs, keep, E) ==
    LET dropped(id, d) ==
            LET rest(r) ==
                    [chains |-> IF d.err = "" THEN r.chains ELSE (id :> ch[id]) @@ r.chains,
                     files |-> r.files, puts |-> d.puts \cup r.puts]
            IN rest(retain_keep_on_failure([i \in DOMAIN ch \ {id} |-> ch[i]],
                                           d.files, keep, E))
        removed(id) == dropped(id, drop(fs, ch[id], E[id]))
    IN IF DOMAIN ch \subseteq keep
       THEN [chains |-> ch, files |-> fs, puts |-> {}]
       ELSE removed(CHOOSE i \in DOMAIN ch \ keep : TRUE)

\* HashMap::retain: every entry not kept is removed and dropped; E[id] is what
\* the store does during the drop of id (the drops write under different
\* names, so their order changes nothing)
RECURSIVE retain(_, _, _, _)
retain(ch, fs, keep, E) ==
    LET dropped(id, d) ==
            LET rest(r) ==
                    [chains |-> r.chains, files |-> r.files, puts |-> d.puts \cup r.puts]
            IN rest(retain([i \in DOMAIN ch \ {id} |-> ch[i]], d.files, keep, E))
        removed(id) == dropped(id, drop(fs, ch[id], E[id]))
    IN IF DOMAIN ch \subseteq keep
       THEN [chains |-> ch, files |-> fs, puts |-> {}]
       ELSE removed(CHOOSE i \in DOMAIN ch \ keep : TRUE)

\* The record of the last operation: op and id, what it returned (res), where
\* get_chain got the ChainInfo from (load), the store writes it made (puts) and
\* how many times it asked the chain for a phrase (tries).
\* What an operation returned: nothing, one of the fixed messages, or a phrase
NoRes == [kind |-> "none", text |-> "", phrase |-> <<>>]

Fixed(msg) == [kind |-> "fixed", text |-> msg, phrase |-> <<>>]

Phrase(s) == [kind |-> "phrase", text |-> "", phrase |-> s]

MkLast(op, id, res, load, puts, tries) ==
    [op |-> op, id |-> id, res |-> res, load |-> load, puts |-> puts, tries |-> tries]

\* what the store does during the load of a chat that is not resident
LoadEnvs(chat_id) ==
    IF chat_id \in DOMAIN chains THEN {NoEnv} ELSE StoreEnvs(files, to_string(chat_id))

\* what the store does during the drop of a ChainInfo
DropEnvs(ci) ==
    IF ci.chain = NewChain THEN {NoEnv} ELSE StoreEnvs(files, to_string(ci.chat_id))

\* the first outputs of generate_str that are blank: none, all but the last, all
BlankRuns == {0, GenTries - 1, GenTries}

\* what generate_str returns on its i-th call
GenOuts(nblank, p) ==
    [i \in 1..GenTries |-> IF i > nblank THEN p ELSE IF i = 1 THEN <<" ">> ELSE <<>>]

NoGen == [fromToken |-> <<>>, outs |-> GenOuts(GenTries, <<>>)]

\* what the chain generates during one generate: nothing is asked of an empty
\* chain; a phrase is one of the lines fed, or blank
GenEnvs(ci, token) ==
    IF ci.chain = NewChain THEN {NoGen}
    ELSE LET loops == {GenOuts(n, p) : n \in BlankRuns \ {GenTries}, p \in ci.chain}
                          \cup {GenOuts(GenTries, <<>>)}
         IN [fromToken : {<<>>}, outs : loops]
            \cup (IF trim(token) = <<>> THEN {}
                  ELSE [fromToken : {token \o <<" ", "b">>}, outs : {GenOuts(GenTries, <<>>)}])

\* the handlers (futures) that the bot's event loop runs at once
NumTasks == 2
Tasks == 1..NumTasks

\* nobody holds the Mutex
NoTask == 0

\* a handler that is not inside a call on the ChainWrapper
Idle == [pc |-> "idle", op |-> "none", id |-> 0]

\* the Mutexes: now (the prune timer), chain (the ChainWrapper), hub (HUB)
LockNames == {"now", "chain", "hub"}

\* a handler with nothing to run
NoProg == [code |-> <<>>, pc |-> 0]

\* ChainWrapper::new, with the store as an earlier run left it
Init ==
    /\ chains = <<>>
    /\ files \in [Names -> {{}, {Garbage}}]
    /\ clock = 0
    /\ phase = "running"
    /\ last = MkLast("new", 0, NoRes, "none", {}, 0)
    /\ rOuts = <<>>
    /\ rRes = NoResult
    /\ mutex = NoTask
    /\ tasks = [t \in Tasks |-> Idle]
    /\ locks = [l \in LockNames |-> NoTask]
    /\ poison = {}
    /\ parent = "uninit"
    /\ relock = "blocks"
    /\ progs = [t \in Tasks |-> NoProg]

\* time passes
Tick ==
    /\ phase = "running"
    /\ clock < MaxTime
    /\ clock' = clock + 1
    /\ last' = MkLast("tick", 0, NoRes, "none", {}, 0)
    /\ UNCHANGED <<chains, files, phase, retryVars, lockVars, orderVars>>

\* ChainWrapper::feed
Feed(chat_id, s) ==
    /\ phase = "running"
    /\ \E e \in LoadEnvs(chat_id) :
        \E g \in {get_chain(chains, files, chat_id, clock, e)} :
            /\ chains' = IF g.ok
                         THEN [g.chains EXCEPT ![chat_id] = feed(@, s, clock)]
                         ELSE g.chains
            /\ last' = MkLast("feed", chat_id, NoRes, g.load, {}, 0)
    /\ UNCHANGED <<files, clock, phase, retryVars, lockVars, orderVars>>

\* ChainWrapper::generate while the store does e
GenerateUnder(chat_id, token, e) ==
    /\ phase = "running"
    /\ \E g \in {get_chain(chains, files, chat_id, clock, e)} :
        IF g.ok
        THEN \E o \in GenEnvs(g.chains[chat_id], token) :
                \E r \in {generate(g.chains[chat_id], token, clock, o)} :
                    /\ chains' = [g.chains EXCEPT ![chat_id] = r.ci]
                    /\ last' = MkLast("generate", chat_id,
                                      IF ~r.some THEN Fixed(err_msg)
                                      ELSE IF r.fixed # "" THEN Fixed(r.fixed)
                                      ELSE Phrase(r.s),
                                      g.load, {}, r.tries)
        ELSE /\ chains' = g.chains
             /\ last' = MkLast("generate", chat_id, Fixed(err_msg), g.load, {}, 0)
    /\ UNCHANGED <<files, clock, phase, retryVars, lockVars, orderVars>>

\* ChainWrapper::generate
Generate(chat_id, token) ==
    \E e \in LoadEnvs(chat_id) : GenerateUnder(chat_id, token, e)

\* ChainWrapper::toggle_learning
ToggleLearning(chat_id) ==
    /\ phase = "running"
    /\ \E e \in LoadEnvs(chat_id) :
        \E g \in {get_chain(chains, files, chat_id, clock, e)} :
            IF g.ok
            THEN \E r \in {toggle_learning(g.chains[chat_id], clock)} :
                    /\ chains' = [g.chains EXCEPT ![chat_id] = r.ci]
                    /\ last' = MkLast("toggle_learning", chat_id, Fixed(r.msg),
                                      g.load, {}, 0)
            ELSE /\ chains' = g.chains
                 /\ last' = MkLast("toggle_learning", chat_id, Fixed(err_msg),
                                   g.load, {}, 0)
    /\ UNCHANGED <<files, clock, phase, retryVars, lockVars, orderVars>>

\* ChainWrapper::clear_data: the removed ChainInfo is cleared, then dropped
ClearData(chat_id) ==
    /\ phase = "running"
    /\ IF chat_id \in DOMAIN chains
       THEN \E e \in StoreEnvs(files, to_string(chat_id)) :
                \E c \in {clear_data(files, chains[chat_id], clock, e)} :
                    \E d \in {drop(c.files, c.ci, NoEnv)} :
                        /\ chains' = [i \in DOMAIN chains \ {chat_id} |-> chains[i]]
                        /\ files' = d.files
                        /\ last' = MkLast("clear_data", chat_id,
                                          IF c.err # "" THEN Fixed(err_msg)
                                          ELSE Fixed(DATABASE_CLEARED),
                                          "none", c.puts \cup d.puts, 0)
       ELSE /\ chains' = chains
            /\ files' = files
            /\ last' = MkLast("clear_data", chat_id, Fixed(DATABASE_CLEARED),
                              "none", {}, 0)
    /\ UNCHANGED <<clock, phase, retryVars, lockVars, orderVars>>

\* what the store does during the drops of the entries not kept
RetainEnvs(keep) ==
    LET envs(out) ==
            {E \in [out -> UNION {DropEnvs(chains[i]) : i \in out}] :
                \A i \in out : E[i] \in DropEnvs(chains[i])}
    IN envs(DOMAIN chains \ keep)

\* ChainWrapper::prune
Prune ==
    /\ phase = "running"
    /\ \E keep \in {{i \in DOMAIN chains : ~is_old(chains[i], clock)}} :
        \E E \in RetainEnvs(keep) :
            \E r \in {retain(chains, files, keep, E)} :
                /\ chains' = r.chains
                /\ files' = r.files
                /\ last' = MkLast("prune", 0, NoRes, "none", r.puts, 0)
    /\ UNCHANGED <<clock, phase, retryVars, lockVars, orderVars>>

\* mutant of drop_all: only the idle entries are dropped
drop_all_idle(E) ==
    \E r \in {retain(chains, files, {i \in DOMAIN chains : ~is_old(chains[i], clock)}, E)} :
        /\ chains' = r.chains
        /\ files' = r.files
        /\ last' = MkLast("drop_all", 0, NoRes, "none", r.puts, 0)

\* ChainWrapper::drop_all
drop_all(E) ==
    \E r \in {retain(chains, files, {}, E)} :
        /\ chains' = r.chains
        /\ files' = r.files
        /\ last' = MkLast("drop_all", 0, NoRes, "none", r.puts, 0)

\* main: the polling loop ends (SIGTERM), the cache is drained, the process exits
Shutdown ==
    /\ phase = "running"
    /\ \E E \in RetainEnvs({}) : drop_all(E)
    /\ phase' = "exited"
    /\ UNCHANGED <<clock, retryVars, lockVars, orderVars>>

Next ==
    \/ Tick
    \/ \E chat_id \in Ids, s \in Texts : Feed(chat_id, s)
    \/ \E chat_id \in Ids, token \in Tokens : Generate(chat_id, token)
    \/ \E chat_id \in Ids : ToggleLearning(chat_id)
    \/ \E chat_id \in Ids : ClearData(chat_id)
    \/ Prune
    \/ Shutdown

Spec == Init /\ [][Next]_vars

(***************************************************************************)
(* The handlers of src/src/bot.rs, step by step.  Every handler reaches    *)
(* the cache through chain.lock().unwrap().<call>(..): the guard that      *)
(* lock() returns lives until the end of that statement, so the Mutex is   *)
(* held from before get_chain (or remove, or retain) until the call has    *)
(* returned, store requests included.                                      *)
(***************************************************************************)

\* the calls that the handlers make on the locked ChainWrapper
HandlerOps == {"feed", "generate", "toggle_learning", "clear_data", "prune"}

\* the first step of a call once the lock is taken
FirstStep(op) ==
    IF op \in {"feed", "generate", "toggle_learning"} THEN "get_chain" ELSE op

\* the chats an update for op can come from (the prune callback has none)
ChatsOf(op) == IF op = "prune" THEN {0} ELSE Ids

\* mutant of Lock: the handler goes on without waiting for the Mutex
LockWithoutWaiting(t, op, chat_id) ==
    /\ phase = "running"
    /\ tasks[t] = Idle
    /\ mutex' = t
    /\ tasks' = [tasks EXCEPT ![t] = [pc |-> FirstStep(op), op |-> op, id |-> chat_id]]
    /\ UNCHANGED <<cacheVars, retryVars, orderVars>>

\* chain.lock().unwrap(): Mutex::lock returns once nobody else holds the Mutex
Lock(t, op, chat_id) ==
    /\ phase = "running"
    /\ tasks[t] = Idle
    /\ mutex = NoTask
    /\ mutex' = t
    /\ tasks' = [tasks EXCEPT ![t] = [pc |-> FirstStep(op), op |-> op, id |-> chat_id]]
    /\ UNCHANGED <<cacheVars, retryVars, orderVars>>

\* ChainWrapper::get_chain inside feed, generate or toggle_learning; when the
\* load fails the call returns and the guard is dropped
GetChain(t) ==
    /\ tasks[t].pc = "get_chain"
    /\ \E e \in LoadEnvs(tasks[t].id) :
        \E g \in {get_chain(chains, files, tasks[t].id, clock, e)} :
            /\ chains' = g.chains
            /\ tasks' = [tasks EXCEPT ![t] = IF g.ok THEN [@ EXCEPT !.pc = "chain"]
                                             ELSE Idle]
            /\ mutex' = IF g.ok THEN mutex ELSE NoTask
    /\ UNCHANGED <<files, clock, phase, last, retryVars, orderVars>>

\* the call on the ChainInfo that get_chain returned
OnChain(op, ci) ==
    CASE op = "feed" -> {feed(ci, s, clock) : s \in Texts}
      [] op = "generate" ->
            UNION {{generate(ci, token, clock, o).ci : o \in GenEnvs(ci, token)} :
                    token \in Tokens}
      [] OTHER -> {toggle_learning(ci, clock).ci}

\* ChainInfo::feed, generate or toggle_learning on the entry; the call
\* returns and the guard is dropped
Mutate(t) ==
    /\ tasks[t].pc = "chain"
    /\ tasks[t].id \in DOMAIN chains
    /\ \E c \in OnChain(tasks[t].op, chains[tasks[t].id]) :
        chains' = [chains EXCEPT ![tasks[t].id] = c]
    /\ tasks' = [tasks EXCEPT ![t] = Idle]
    /\ mutex' = NoTask
    /\ UNCHANGED <<files, clock, phase, last, retryVars, orderVars>>

\* ChainWrapper::clear_data; the call returns and the guard is dropped
Clear(t) ==
    /\ tasks[t].pc = "clear_data"
    /\ IF tasks[t].id \in DOMAIN chains
       THEN \E e \in StoreEnvs(files, to_string(tasks[t].id)) :
                \E c \in {clear_data(files, chains[tasks[t].id], clock, e)} :
                    \E d \in {drop(c.files, c.ci, NoEnv)} :
                        /\ chains' = [i \in DOMAIN chains \ {tasks[t].id} |-> chains[i]]
                        /\ files' = d.files
       ELSE /\ chains' = chains
            /\ files' = files
    /\ tasks' = [tasks EXCEPT ![t] = Idle]
    /\ mutex' = NoTask
    /\ UNCHANGED <<clock, phase, last, retryVars, orderVars>>

\* ChainWrapper::prune; the call returns and the guard is dropped
Retain(t) ==
    /\ tasks[t].pc = "prune"
    /\ \E keep \in {{i \in DOMAIN chains : ~is_old(chains[i], clock)}} :
        \E E \in RetainEnvs(keep) :
            \E r \in {retain(chains, files, keep, E)} :
                /\ chains' = r.chains
                /\ files' = r.files
    /\ tasks' = [tasks EXCEPT ![t] = Idle]
    /\ mutex' = NoTask
    /\ UNCHANGED <<clock, phase, last, retryVars, orderVars>>

NextLock ==
    \/ Tick
    \/ \E t \in Tasks, op \in HandlerOps : \E chat_id \in ChatsOf(op) : Lock(t, op, chat_id)
    \/ \E t \in Tasks : GetChain(t)
    \/ \E t \in Tasks : Mutate(t)
    \/ \E t \in Tasks : Clear(t)
    \/ \E t \in Tasks : Retain(t)

SpecLock == Init /\ [][NextLock]_vars

(***************************************************************************)
(* The Mutexes of the program and the order the handlers take them in.     *)
(* A handler is the sequence of lock, deref and unlock steps of its code;  *)
(* what the cache and the store hold plays no part here.                   *)
(***************************************************************************)

\* gdrive::update_or_create_file and gdrive::download_file: HUB is locked,
\* then &PARENT is evaluated for get_id_by_name, the requests are made and the
\* guard is dropped on return
store_call == << <<"lock", "hub">>, <<"deref", "PARENT">>, <<"unlock", "hub">> >>

RECURSIVE Repeat(_, _)
Repeat(code, n) == IF n = 0 THEN <<>> ELSE code \o Repeat(code, n - 1)

\* chain.lock().unwrap().<call>(..) of the speak, toggle_learning, clear_data
\* and text handlers, with the j store calls of the call (a load on a miss, or
\* the overwrite of clear_data)
handler(j) ==
    << <<"lock", "chain">> >> \o Repeat(store_call, j) \o << <<"unlock", "chain">> >>

\* the before_update callback when the interval has elapsed: prune drops k
\* entries that have a chain to save
before_update(k) ==
    << <<"lock", "now">>, <<"lock", "chain">> >> \o Repeat(store_call, k)
        \o << <<"unlock", "chain">>, <<"unlock", "now">> >>

\* the before_update callback when the interval has not elapsed
before_update_early == << <<"lock", "now">>, <<"unlock", "now">> >>

Programs ==
    {handler(j) : j \in 0..1}
        \cup {before_update(k) : k \in 0..Cardinality(Ids)}
        \cup {before_update_early}

\* the step a handler is at
Instr(t) == progs[t].code[progs[t].pc]

\* the handler has run its step
Advance(t) ==
    [progs EXCEPT ![t] = IF @.pc = Len(@.code) THEN NoProg ELSE [@ EXCEPT !.pc = @ + 1]]

\* a panic in handler t: unwinding drops its guards, which poisons their
\* Mutexes, and the task of the handler ends
Unwind(t) ==
    /\ locks' = [l \in LockNames |-> IF locks[l] = t THEN NoTask ELSE locks[l]]
    /\ poison' = poison \cup {l \in LockNames : locks[l] = t}
    /\ progs' = [progs EXCEPT ![t] = NoProg]

\* main never calls gdrive::initialize: HUB and PARENT are initialized at
\* their first use. What a second lock() in the holding thread does is left
\* open by std::sync::Mutex: it does not return, by blocking or by panicking
InitOrder ==
    /\ chains = <<>>
    /\ files = [n \in Names |-> {}]
    /\ clock = 0
    /\ phase = "running"
    /\ last = MkLast("new", 0, NoRes, "none", {}, 0)
    /\ rOuts = <<>>
    /\ rRes = NoResult
    /\ mutex = NoTask
    /\ tasks = [t \in Tasks |-> Idle]
    /\ locks = [l \in LockNames |-> NoTask]
    /\ poison = {}
    /\ parent = "uninit"
    /\ relock \in {"blocks", "panics"}
    /\ progs = [t \in Tasks |-> NoProg]

\* an update arrives and the event loop starts a handler for it
Start(t, code) ==
    /\ progs[t] = NoProg
    /\ progs' = [progs EXCEPT ![t] = [code |-> code, pc |-> 1]]
    /\ UNCHANGED <<cacheVars, retryVars, lockVars, locks, poison, parent, relock>>

\* Mutex::lock().unwrap(): returns once the Mutex is free; panics when it is
\* poisoned
Acquire(t) ==
    /\ progs[t] # NoProg
    /\ Instr(t)[1] = "lock"
    /\ locks[Instr(t)[2]] = NoTask
    /\ IF Instr(t)[2] \in poison
       THEN Unwind(t)
       ELSE /\ locks' = [locks EXCEPT ![Instr(t)[2]] = t]
            /\ progs' = Advance(t)
            /\ poison' = poison
    /\ UNCHANGED <<cacheVars, retryVars, lockVars, parent, relock>>

\* the guard is dropped
Release(t) ==
    /\ progs[t] # NoProg
    /\ Instr(t)[1] = "unlock"
    /\ locks' = [locks EXCEPT ![Instr(t)[2]] = NoTask]
    /\ progs' = Advance(t)
    /\ UNCHANGED <<cacheVars, retryVars, lockVars, poison, parent, relock>>

\* &PARENT: the first evaluation runs get_or_create_folder, which locks HUB
\* for the folder listing; a panic inside it poisons the lazy static
DerefParent(t) ==
    /\ progs[t] # NoProg
    /\ Instr(t)[1] = "deref"
    /\ CASE parent = "ready" ->
                /\ progs' = Advance(t)
                /\ UNCHANGED <<locks, poison, parent>>
         [] parent = "poisoned" ->
                /\ Unwind(t)
                /\ parent' = parent
         [] OTHER ->
                IF locks["hub"] = NoTask
                THEN /\ parent' = "ready"
                     /\ progs' = Advance(t)
                     /\ UNCHANGED <<locks, poison>>
                ELSE /\ locks["hub"] = t
                     /\ relock = "panics"
                     /\ Unwind(t)
                     /\ parent' = "poisoned"
    /\ UNCHANGED <<cacheVars, retryVars, lockVars, relock>>

NextOrder ==
    \/ \E t \in Tasks, code \in Programs : Start(t, code)
    \/ \E t \in Tasks : Acquire(t)
    \/ \E t \in Tasks : Release(t)
    \/ \E t \in Tasks : DerefParent(t)

SpecOrder == InitOrder /\ [][NextOrder]_vars

(***************************************************************************)
(* The retry helpers on their own: a closure with every sequence of        *)
(* outcomes is handed to one of the two helpers                            *)
(***************************************************************************)
InitRetry ==
    /\ chains = <<>>
    /\ files = [n \in Names |-> {}]
    /\ clock = 0
    /\ phase = "running"
    /\ last = MkLast("new", 0, NoRes, "none", {}, 0)
    /\ rOuts \in [1..MaxInvocations -> BOOLEAN]
    /\ rRes = NoResult
    /\ mutex = NoTask
    /\ tasks = [t \in Tasks |-> Idle]
    /\ locks = [l \in LockNames |-> NoTask]
    /\ poison = {}
    /\ parent = "uninit"
    /\ relock = "blocks"
    /\ progs = [t \in Tasks |-> NoProg]

\* exponential_retry(closure)
CallRetry ==
    /\ rRes = NoResult
    /\ rRes' = WithVariant("blocking", exponential_retry(rOuts))
    /\ UNCHANGED <<rOuts, cacheVars, lockVars, orderVars>>

\* exponential_retry_async(closure).await
CallRetryAsync ==
    /\ rRes = NoResult
    /\ rRes' = WithVariant("async", exponential_retry_async(rOuts))
    /\ UNCHANGED <<rOuts, cacheVars, lockVars, orderVars>>

NextRetry == CallRetry \/ CallRetryAsync

SpecRetry == InitRetry /\ [][NextRetry]_vars

(***************************************************************************)
(* Properties                                                              *)
(***************************************************************************)
\* the operations that go through get_chain
LoadingOps == {"feed", "generate", "toggle_learning"}

\* the step is an operation on chat_id that goes through get_chain
Loads(chat_id) ==
    \/ last'.op = "feed" /\ \E s \in Texts : Feed(chat_id, s)
    \/ last'.op = "generate" /\ \E token \in Tokens : Generate(chat_id, token)
    \/ last'.op = "toggle_learning" /\ ToggleLearning(chat_id)

\* some store write of the last operation sent these bytes under this name
PutAttempted(l, name, bytes) == \E p \in l.puts : p.name = name /\ p.bytes = bytes

\* how many times the helper invoked the closure
Invocations(r) == Cardinality({i \in 1..Len(r.trace) : r.trace[i] = "call"})

\* C1: an operation on a chat that is not resident starts a download; when the
\* download fails after the retries no entry is inserted and generate and
\* toggle_learning return the failure message; when it succeeds the chat is
\* resident when the operation returns.
C1_LoadFailureLeavesAbsent ==
    [][\A id \in Ids :
        (id \notin DOMAIN chains /\ last'.id = id /\ Loads(id))
        => /\ last'.load \in {"loaded", "fresh", "failed", "corrupt"}
           /\ last'.load = "failed"
                => /\ id \notin DOMAIN chains'
                   /\ last'.op \in {"generate", "toggle_learning"}
                        => last'.res = Fixed(COMMAND_FAILED)
                   /\ last'.op = "feed" => last'.res = NoRes
           /\ last'.load \in {"loaded", "fresh"} => id \in DOMAIN chains'
           /\ \A other \in Ids \ {id} :
                (other \in DOMAIN chains') = (other \in DOMAIN chains)]_vars

\* C1 witness: a generate whose download failed left the chat absent and
\* returned the failure message.
C1_Witness ==
    /\ last.op = "generate"
    /\ last.load = "failed"
    /\ last.id \notin DOMAIN chains
    /\ last.res = Fixed(COMMAND_FAILED)

\* C2 (as claimed): after a load that found bytes that do not deserialize, the
\* bad file is gone from the store, a fresh empty entry with learning enabled
\* is resident, and generate and toggle_learning return their normal result.
C2_CorruptTreatedAsAbsent ==
    last.load = "corrupt"
    => /\ Garbage \notin files[to_string(last.id)]
       /\ last.id \in DOMAIN chains
       /\ chains[last.id].chain = NewChain
       /\ last.op \in {"generate", "toggle_learning"} => last.res # Fixed(COMMAND_FAILED)

\* C3 (as claimed): no store write carries an empty chain, and no file of the
\* store holds one.
C3_NoEmptyModelWritten ==
    /\ \A p \in last.puts : p.bytes.chain # NewChain
    /\ \A n \in Names : \A b \in files[n] : b.kind = "bincode" => b.chain # NewChain

\* C4 (as claimed): when clear_data(id) is called twice in a row and no store
\* request fails, both calls return "[database cleared]", and after the second
\* no file is stored under the id and no entry is resident.
C4_ClearTwiceLeavesNoBlob ==
    [][\A id \in Ids :
        (/\ last.op = "clear_data" /\ last.id = id /\ \A p \in last.puts : p.ok
         /\ ClearData(id) /\ \A p \in last'.puts : p.ok)
        => /\ last.res = Fixed(DATABASE_CLEARED)
           /\ last'.res = Fixed(DATABASE_CLEARED)
           /\ files'[to_string(id)] = {}
           /\ id \notin DOMAIN chains']_vars

\* C5: every entry that prune removes with a non-empty chain has its bincode
\* sent to the store under its name in the same step; an entry removed with
\* an empty chain causes no store write.
C5_PersistBeforeEvict ==
    [][Prune
        => \A id \in DOMAIN chains \ DOMAIN chains' :
            IF chains[id].chain # NewChain
            THEN PutAttempted(last', to_string(id), get_bincode(chains[id]))
            ELSE \A p \in last'.puts : p.name # to_string(id)]_vars

\* C5 witness: a prune removed a chat and sent its non-empty chain to the store.
C5_Witness ==
    /\ last.op = "prune"
    /\ \E id \in Ids \ DOMAIN chains :
        \E p \in last.puts : p.name = to_string(id) /\ p.bytes.chain # NewChain

\* C6: after prune, every entry idle for more than MAX_TIMEDELTA is gone and
\* every other entry is resident and unchanged.
C6_PruneRemovesExactlyTheOld ==
    [][Prune
        => /\ DOMAIN chains' \subseteq DOMAIN chains
           /\ \A id \in DOMAIN chains :
                IF clock - chains[id].last_accessed > MAX_TIMEDELTA
                THEN id \notin DOMAIN chains'
                ELSE id \in DOMAIN chains' /\ chains'[id] = chains[id]]_vars

\* C6 witness: a prune removed one chat and kept another, one that was idle
\* for exactly MAX_TIMEDELTA.
C6_Witness ==
    /\ last.op = "prune"
    /\ last.puts # {}
    /\ \E id \in DOMAIN chains : clock - chains[id].last_accessed = MAX_TIMEDELTA

C9_FirstSuccessOrLastError ==
    rRes.variant # "none"
    => /\ Invocations(rRes) >= 1
       /\ rRes.from = Invocations(rRes)
       /\ \A j \in 1..(Invocations(rRes) - 1) : ~rOuts[j]
       /\ rRes.ok = rOuts[Invocations(rRes)]
       /\ rRes.trace[Len(rRes.trace)] = "call"

\* C9 witness: exponential_retry_async returned the error of its fifth
\* invocation, and exponential_retry would have succeeded on a sixth.
C9_Witness ==
    /\ rRes.variant = "async"
    /\ ~rRes.ok
    /\ rRes.from = NumDurations
    /\ rOuts[NumDurations + 1]

\* C10 (as claimed): generate(id, "") on a chat with no resident entry and no
\* file in the store returns "[no phrases learnt]" and leaves a resident entry
\* with an empty chain and learning enabled.
C10_UnseenGeneratesNothingLearnt ==
    [][\A id \in Ids :
        (/\ id \notin DOMAIN chains /\ files[to_string(id)] = {}
         /\ Generate(id, <<>>))
        => /\ last'.res = Fixed(NO_PHRASES)
           /\ id \in DOMAIN chains'
           /\ chains'[id].chain = NewChain
           /\ chains'[id].is_learning]_vars

\* C10 (amended): generate(id, "") on a chat with no resident entry and no file
\* in the store returns "[no phrases learnt]" and leaves a resident entry with
\* an empty chain and learning enabled, unless the listing of the store fails
\* after the retries: then it returns the failure message and leaves no entry.
C10_UnseenGeneratesNothingLearntUnlessLoadFails ==
    [][\A id \in Ids :
        (/\ id \notin DOMAIN chains /\ files[to_string(id)] = {}
         /\ Generate(id, <<>>))
        => IF last'.load = "failed"
           THEN last'.res = Fixed(COMMAND_FAILED) /\ id \notin DOMAIN chains'
           ELSE /\ last'.load = "fresh"
                /\ last'.res = Fixed(NO_PHRASES)
                /\ last'.tries = 0
                /\ id \in DOMAIN chains'
                /\ chains'[id] = [chain |-> NewChain, chat_id |-> id,
                                  is_learning |-> TRUE, last_accessed |-> clock]]_vars

\* C10 witness: a generate on a chat that was not in the store returned
\* "[no phrases learnt]" and left the fresh entry resident.
C10_Witness ==
    /\ last.op = "generate"
    /\ last.load = "fresh"
    /\ last.res = Fixed(NO_PHRASES)
    /\ last.id \in DOMAIN chains
    /\ chains[last.id].chain = NewChain
    /\ chains[last.id].is_learning

\* C11 (as claimed): generate(id, "") returns the failure message only after
\* exactly 10 calls of generate_str.
C11_FailureOnlyAfterTenTries ==
    [][\A id \in Ids :
        (last'.res = Fixed(COMMAND_FAILED) /\ last'.op = "generate" /\ last'.id = id
         /\ Generate(id, <<>>))
        => last'.tries = GenTries]_vars

\* C11 (amended): generate(id, "") returns a phrase that is not blank after
\* trimming, "[no phrases learnt]" or the failure message; it returns the
\* failure message either when the load failed, before any call of
\* generate_str, or after exactly 10 calls of generate_str.
C11_NeverBlank ==
    [][\A id \in Ids :
        (last'.op = "generate" /\ last'.id = id /\ Generate(id, <<>>))
        => /\ last'.res.kind \in {"phrase", "fixed"}
           /\ last'.res.kind = "phrase" => trim(last'.res.phrase) # <<>>
           /\ last'.res.kind = "fixed" => last'.res.text \in {NO_PHRASES, COMMAND_FAILED}
           /\ last'.res = Fixed(COMMAND_FAILED)
                => IF id \in DOMAIN chains'
                   THEN last'.tries = GenTries /\ chains'[id].chain # NewChain
                   ELSE last'.tries = 0 /\ last'.load \in {"failed", "corrupt"}
           /\ last'.tries \in 0..GenTries]_vars

\* C11 witness: a generate on a chat with a chain returned the failure message
\* after 10 blank phrases.
C11_Witness ==
    /\ last.op = "generate"
    /\ last.id \in DOMAIN chains
    /\ last.res = Fixed(COMMAND_FAILED)
    /\ last.tries = GenTries

\* C12: a toggle_learning that succeeds returns "[learning enabled]" or
\* "[learning disabled]", the one that says what is_learning is afterwards, and
\* negates the is_learning of a resident entry without changing its chain; of
\* two toggle_learning calls in a row on the same chat that succeed, the second
\* returns the other message and leaves is_learning as it was before the first.
C12_ToggleInvolution ==
    [][\A id \in Ids :
        (/\ last'.op = "toggle_learning" /\ last'.id = id
         /\ ToggleLearning(id)
         /\ id \in DOMAIN chains')
        => /\ last'.res \in {Fixed(LEARNING_DISABLED), Fixed(LEARNING_ENABLED)}
           /\ (last'.res = Fixed(LEARNING_ENABLED)) = chains'[id].is_learning
           /\ id \in DOMAIN chains
                => /\ chains'[id].is_learning = ~chains[id].is_learning
                   /\ chains'[id].chain = chains[id].chain
           /\ (last.op = "toggle_learning" /\ last.id = id
                    /\ last.res # Fixed(COMMAND_FAILED))
                => /\ id \in DOMAIN chains
                   /\ last'.res # last.res
                   /\ chains'[id].is_learning = (last.res = Fixed(LEARNING_DISABLED))]_vars

\* C12 witness: a toggle_learning returned "[learning enabled]" on a chat that
\* has a chain, which an earlier one had disabled.
C12_Witness ==
    /\ last.op = "toggle_learning"
    /\ last.res = Fixed(LEARNING_ENABLED)
    /\ last.id \in DOMAIN chains
    /\ chains[last.id].is_learning
    /\ chains[last.id].chain # NewChain

\* C13: a feed on a resident chat whose learning is disabled changes only the
\* last_accessed of its entry, so the chain generates what it generated before;
\* a feed that loads a chat whose learning is disabled leaves the entry as it
\* was stored.
C13_FeedWhileDisabled ==
    [][\A id \in Ids :
        (last'.op = "feed" /\ last'.id = id /\ \E s \in Texts : Feed(id, s))
        => /\ (id \in DOMAIN chains /\ ~chains[id].is_learning)
                => /\ chains' = [chains EXCEPT ![id].last_accessed = clock]
                   /\ files' = files
                   /\ \A token \in Tokens :
                        GenEnvs(chains'[id], token) = GenEnvs(chains[id], token)
           /\ (id \notin DOMAIN chains /\ id \in DOMAIN chains'
                    /\ ~chains'[id].is_learning)
                => /\ last'.load = "loaded"
                   /\ get_bincode(chains'[id]) \in files[to_string(id)]]_vars

\* C13 witness: a feed on a chat whose learning is disabled left its chain empty.
C13_Witness ==
    /\ last.op = "feed"
    /\ last.id \in DOMAIN chains
    /\ ~chains[last.id].is_learning
    /\ chains[last.id].chain = NewChain
    /\ chains[last.id].last_accessed = clock
    /\ clock > 0

\* C14: generate and toggle_learning return the failure message when the load
\* failed, generate returns it when the chain gave no phrase that is not blank,
\* clear_data returns it when its store write failed and "[database cleared]"
\* otherwise, feed returns nothing, and every message returned is one of the
\* five fixed messages.
C14_GenericFailureMessage ==
    /\ last.res.kind = "fixed"
        => last.res.text \in {COMMAND_FAILED, NO_PHRASES, LEARNING_DISABLED,
                              LEARNING_ENABLED, DATABASE_CLEARED}
    /\ (last.op \in {"generate", "toggle_learning"} /\ last.load \in {"failed", "corrupt"})
        => last.res = Fixed(COMMAND_FAILED)
    /\ (last.op = "generate" /\ last.res.kind # "phrase")
        => /\ last.res \in {Fixed(COMMAND_FAILED), Fixed(NO_PHRASES)}
           /\ (last.id \in DOMAIN chains /\ chains[last.id].chain # NewChain)
                => last.res = Fixed(COMMAND_FAILED) /\ last.tries >= GenTries
    /\ last.op = "toggle_learning"
        => last.res \in {Fixed(COMMAND_FAILED), Fixed(LEARNING_DISABLED),
                         Fixed(LEARNING_ENABLED)}
    /\ last.op = "clear_data"
        => last.res = IF \E p \in last.puts : ~p.ok
                      THEN Fixed(COMMAND_FAILED)
                      ELSE Fixed(DATABASE_CLEARED)
    /\ last.op = "feed" => last.res = NoRes

\* C14 witness: a clear_data whose store write failed returned the failure
\* message.
C14_Witness ==
    /\ last.op = "clear_data"
    /\ \E p \in last.puts : ~p.ok
    /\ last.res = Fixed(COMMAND_FAILED)

C17_NoReloadWhileResident ==
    [][/\ \A id \in DOMAIN chains' : chains'[id].chat_id = id
       /\ \A id \in DOMAIN chains :
            (last'.id = id /\ Loads(id))
            => /\ last'.load = "hit"
               /\ files' = files
               /\ DOMAIN chains' = DOMAIN chains
               /\ \A other \in DOMAIN chains \ {id} : chains'[other] = chains[other]
               /\ chains[id].chain \subseteq chains'[id].chain
               /\ last'.op # "feed" => chains'[id].chain = chains[id].chain
               /\ chains'[id].is_learning =
                    IF last'.op = "toggle_learning"
                    THEN ~chains[id].is_learning
                    ELSE chains[id].is_learning]_vars

\* C17 witness: a generate worked on a resident chat that has a chain while
\* the store had no file of the chat.
C17_Witness ==
    /\ last.op = "generate"
    /\ last.load = "hit"
    /\ last.id \in DOMAIN chains
    /\ chains[last.id].chain # NewChain
    /\ files[to_string(last.id)] = {}

C19_NoMutationLostAcrossEviction ==
    [][(Prune /\ \A p \in last'.puts : p.ok)
        => \A id \in DOMAIN chains \ DOMAIN chains' :
            \A e \in StoreEnvs(files', to_string(id)) :
                (e.f1 = 0 /\ e.f2 = 0)
                => LET n == ChainInfo_new(files', id, clock, e) IN
                   /\ n.ok
                   /\ n.ci.chain = chains[id].chain
                   /\ n.ci.is_learning = chains[id].is_learning]_vars

\* C20 (as claimed): a generate(id, "") right after a clear_data(id) that
\* returned "[database cleared]", with a load that does not fail, returns
\* "[no phrases learnt]".
C20_NothingLearntAfterClear ==
    [][\A id \in Ids :
        (/\ last.op = "clear_data" /\ last.id = id
         /\ last.res = Fixed(DATABASE_CLEARED)
         /\ last'.op = "generate" /\ last'.id = id
         /\ last'.load \notin {"failed", "corrupt"}
         /\ Generate(id, <<>>))
        => last'.res = Fixed(NO_PHRASES)]_vars

\* the handlers that are inside a call on the ChainWrapper
Holders == {t \in Tasks : tasks[t] # Idle}

\* C16: the calls of the handlers on the ChainWrapper never overlap: at most
\* one handler is inside a call, it holds the Mutex, no other handler enters
\* before it has returned, every change of the cache or of the store made
\* meanwhile (a load on a miss included) is its own, and the entry it is about
\* to mutate is still resident, so a prune cannot take it away.
C16_HandlersNeverOverlap ==
    [][ /\ Cardinality(Holders) <= 1
        /\ \A t \in Holders :
            /\ mutex = t
            /\ tasks[t].pc = "chain" => tasks[t].id \in DOMAIN chains
            /\ \A u \in Tasks \ {t} : tasks'[u] = tasks[u]
            /\ (chains' # chains \/ files' # files) => tasks'[t] # tasks[t]
      ]_vars

\* C16 witness: a handler is between get_chain and its call on an entry that
\* a prune would drop at this moment
C16_Witness ==
    \E t \in Tasks :
        /\ tasks[t].pc = "chain"
        /\ mutex = t
        /\ tasks[t].id \in DOMAIN chains
        /\ is_old(chains[tasks[t].id], clock)

\* C21 (as claimed): a generate with a non-blank seed on a chain that is not
\* empty calls the chain's generation at most 10 times, the call of
\* generate_str_from_token included.
C21_AtMostTenGenerations ==
    [][\A id \in Ids :
        (last'.op = "generate" /\ last'.id = id /\ Generate(id, <<"a">>)
         /\ id \in DOMAIN chains' /\ chains'[id].chain # NewChain)
        => last'.tries <= GenTries]_vars

\* C21 (amended): a generate with a non-blank seed on a chain that is not
\* empty calls generate_str_from_token once and, when that result is blank,
\* generate_str up to 10 times, 11 calls at most; it returns a phrase that is
\* not blank or the failure message, and the failure message only after all
\* 11 results were blank.
C21_AtMostElevenGenerations ==
    [][\A id \in Ids :
        (last'.op = "generate" /\ last'.id = id /\ Generate(id, <<"a">>)
         /\ id \in DOMAIN chains' /\ chains'[id].chain # NewChain)
        => /\ last'.tries \in 1..(GenTries + 1)
           /\ \/ last'.res.kind = "phrase" /\ trim(last'.res.phrase) # <<>>
              \/ last'.res = Fixed(COMMAND_FAILED)
           /\ last'.res = Fixed(COMMAND_FAILED) => last'.tries = GenTries + 1]_vars

\* C21 witness: a generate whose seeded phrase was blank fell back on gen_loop
\* and returned the phrase of a later try.
C21_Witness ==
    /\ last.op = "generate"
    /\ last.tries \in 2..GenTries
    /\ last.res.kind = "phrase"
    /\ trim(last.res.phrase) # <<>>

\* C22: the store never holds two files of the same name: a write under a
\* name that already has a file replaces it, also when the listing inside
\* update_or_create_file fails.
C22_AtMostOneBlobPerKey ==
    \A name \in Names : Cardinality(files[name]) <= 1

\* the order the claim gives the Mutexes
Rank(l) == CASE l = "now" -> 1 [] l = "chain" -> 2 [] OTHER -> 3

\* the Mutex that handler t asks for at its step, "none" if it asks for none
Wanted(t) ==
    IF progs[t] = NoProg THEN "none"
    ELSE IF Instr(t)[1] = "lock" THEN Instr(t)[2]
    ELSE IF Instr(t)[1] = "deref" /\ parent = "uninit" THEN "hub"
    ELSE "none"

\* handler t cannot go on before the holder of the Mutex it asks for drops it
Blocked(t) ==
    /\ Wanted(t) # "none"
    /\ locks[Wanted(t)] # NoTask
    /\ locks[Wanted(t)] = t => relock = "blocks"

\* C23: the handlers never deadlock: a handler that asks for a Mutex holds
\* only Mutexes that come earlier in the order now, chain, hub, and there is
\* no set of handlers each of which waits for a Mutex held inside the set.
C23_NeverDeadlock ==
    /\ \A t \in Tasks : \A l \in LockNames :
            (Wanted(t) # "none" /\ locks[l] = t) => Rank(l) < Rank(Wanted(t))
    /\ ~ \E S \in SUBSET Tasks :
            /\ S # {}
            /\ \A t \in S : Blocked(t) /\ locks[Wanted(t)] \in S

\* C24: a prune or a shutdown drain during which a save fails after its
\* retries still removes every entry it has to remove, the one whose save
\* failed included, still attempts the save of every other removed entry
\* that has a chain, and ends normally.
C24_RemovedEvenIfPersistFails ==
    [][\A drain \in {"prune", "drop_all"} :
        (/\ last'.op = drain
         /\ \E p \in last'.puts : ~p.ok
         /\ IF drain = "prune" THEN Prune ELSE Shutdown)
        => /\ \A id \in DOMAIN chains :
                IF drain = "drop_all" \/ is_old(chains[id], clock)
                THEN /\ id \notin DOMAIN chains'
                     /\ chains[id].chain # NewChain
                            => PutAttempted(last', to_string(id), get_bincode(chains[id]))
                ELSE id \in DOMAIN chains' /\ chains'[id] = chains[id]
           /\ phase' = IF drain = "prune" THEN "running" ELSE "exited"]_vars

\* C24 witness: a prune removed both chats; the save of one failed and the
\* save of the other one got through.
C24_Witness ==
    /\ last.op = "prune"
    /\ chains = <<>>
    /\ \E p, q \in last.puts : ~p.ok /\ q.ok /\ p.name # q.name

\* C25: on every sequence of outcomes of the closure, exponential_retry and
\* exponential_retry_async invoke it the same number of times and return the
\* same Ok or Err, and the helper that was called made its first invocation
\* without a wait before it and waited only between a failed invocation and
\* the next one.
C25_VariantsEquivalent ==
    rRes.variant # "none"
    => LET same(b, a) ==
               /\ b.ok = a.ok
               /\ b.calls = a.calls
       IN /\ same(exponential_retry(rOuts), exponential_retry_async(rOuts))
          /\ \A i \in 1..Len(rRes.trace) :
                rRes.trace[i] = (IF i % 2 = 1 THEN "call" ELSE "wait")

====
